---- MODULE Spec2Model ----
(***************************************************************************)
(* Model of py/manipulation/props/rgb_objects/rgb_object.py: the object    *)
(* identifier taxonomy built when the module is imported, the triplet      *)
(* samplers, the named sampler registry and the cached mesh path resolver. *)
(*                                                                         *)
(* Identifiers, registry keys and paths are strings; Python lists are      *)
(* sequences, Python sets (and list(set(...)), whose order is arbitrary)   *)
(* are sets.                                                               *)
(***************************************************************************)
EXTENDS Integers, Sequences, FiniteSets, TLC

VARIABLES
  params,             \* keys of the raw nickname catalog (_RGB_OBJECTS_PARAMS)
  result,             \* outcome of the last call, as its caller sees it
  fs,                 \* the file system: existing directories and files
  dataset_stl_paths,  \* RgbDataset._dataset_stl_paths
  fresh,              \* history: no __call__ for the version since start / clear_cache
  returned            \* history: what the last __call__ for the version returned

vars == <<params, result, fs, dataset_stl_paths, fresh, returned>>

(***************************************************************************)
(* Bounds of the model.                                                    *)
(***************************************************************************)
\* How many nicknames of NicknamePool a raw catalog may draw from (taxonomy).
NumNicknames == 7
\* The same, for the specification of random_triplet.
NumSamplerNicknames == 3
\* How many files of FilePool may exist in the file system.
NumFiles == 4

(***************************************************************************)
(* Python helpers.                                                         *)
(***************************************************************************)
Range(s) == {s[i] : i \in 1..Len(s)}

\* str.startswith
startswith(s, prefix) ==
  /\ Len(s) >= Len(prefix)
  /\ SubSeq(s, 1, Len(prefix)) = prefix

\* str.endswith
endswith(s, suffix) ==
  /\ Len(s) >= Len(suffix)
  /\ SubSeq(s, Len(s) - Len(suffix) + 1, Len(s)) = suffix

\* os.path.join of a directory and a file name
join(path, f) == path \o "/" \o f

\* An Optional[...] value: None, or a given value.
None == [given |-> FALSE, val |-> <<>>]
Some(v) == [given |-> TRUE, val |-> v]
\* Python truth value of an Optional list: None and the empty list are falsy.
Truthy(o) == o.given /\ o.val # <<>>

(***************************************************************************)
(* Versions.                                                               *)
(***************************************************************************)
V1 == "RGB_OBJECTS_V1"
PropsVersion == {V1}

\* object_collection.VersionedSequence(version, ids)
PropsSetType(version, ids) == [version |-> version, ids |-> ids]

(***************************************************************************)
(* Identifier taxonomy (module level, computed at import from the catalog).*)
(***************************************************************************)
NicknamePool == <<"d2", "f23", "t2", "e23", "d23", "f5", "r2", "m14", "x67">>
Nicknames(n) ==
  {NicknamePool[i] : i \in 1..(IF n < Len(NicknamePool) THEN n ELSE Len(NicknamePool))}

_RGB_OBJECTS_PARAMS == params

D_OBJECTS_prefix_f == {x \in _RGB_OBJECTS_PARAMS : startswith(x, "f")}
_D_OBJECTS == {x \in _RGB_OBJECTS_PARAMS : startswith(x, "d")}

RGB_OBJECTS_TEST_SET ==
  {"s0", "r2", "r3", "r5", "r6", "b2", "b3", "b5", "b6", "g2", "g3", "g5", "g6"}

FULL_SET_without_test == _RGB_OBJECTS_PARAMS \ _D_OBJECTS
RGB_OBJECTS_FULL_SET ==
  (_RGB_OBJECTS_PARAMS \ _D_OBJECTS) \cup RGB_OBJECTS_TEST_SET

_SINGLE_DEFORMATION_OBJECTS == {x \in RGB_OBJECTS_FULL_SET : Len(x) = 2}
RGB_OBJECTS_HELDOUT_SET == _SINGLE_DEFORMATION_OBJECTS

TRAIN_SET_with_heldout ==
  (RGB_OBJECTS_FULL_SET \ _D_OBJECTS) \ RGB_OBJECTS_TEST_SET
RGB_OBJECTS_TRAIN_SET ==
  ((RGB_OBJECTS_FULL_SET \ RGB_OBJECTS_HELDOUT_SET) \ _D_OBJECTS)
    \ RGB_OBJECTS_TEST_SET

_DEFORMATION_VALUES == <<"f", "e", "h", "x", "l", "m", "y", "r", "u", "v">>
DEFORMATION_HELDOUT_AXES == <<"2", "3", "5", "6">>
DEFORMATION_TRAIN_AXES ==
  <<"23", "25", "26", "35", "36", "37", "38", "56", "57", "58", "67">>
DEFORMATION_AXES == DEFORMATION_TRAIN_AXES \o DEFORMATION_HELDOUT_AXES

\* The inner loop of _define_deformation_axes for the axis a: the first n
\* deformation values, each kept when its object id is in the full set.
RECURSIVE axis_objects(_, _)
axis_objects(a, n) ==
  IF n = 0 THEN <<>>
  ELSE LET obj_id == _DEFORMATION_VALUES[n] \o a
       IN  IF obj_id \in RGB_OBJECTS_FULL_SET
             THEN Append(axis_objects(a, n - 1), obj_id)
             ELSE axis_objects(a, n - 1)

define_deformation_axes_unfiltered ==
  [a \in Range(DEFORMATION_AXES) |->
     [i \in 1..Len(_DEFORMATION_VALUES) |-> _DEFORMATION_VALUES[i] \o a]]
_define_deformation_axes ==
  [a \in Range(DEFORMATION_AXES) |-> axis_objects(a, Len(_DEFORMATION_VALUES))]

RGB_OBJECTS_DIM == _define_deformation_axes

_RESOURCES_ROOT_DIR == "assets"
_RGB_OBJECTS_MESHES ==
  << join(_RESOURCES_ROOT_DIR, "rgb_v1/meshes/test_triplets"),
     join(_RESOURCES_ROOT_DIR, "rgb_v1/meshes/train"),
     join(_RESOURCES_ROOT_DIR, "rgb_v1/meshes/heldout") >>

PROP_FEATURES ==
  [v \in PropsVersion |->
     [version |-> V1, ids |-> RGB_OBJECTS_FULL_SET, mesh_paths |-> _RGB_OBJECTS_MESHES]]

(***************************************************************************)
(* Triplet samplers.                                                       *)
(***************************************************************************)
\* random_triplet: the outcomes the call can have, over the draws of
\* np.random.choice. An outcome is a returned PropsSetType or a raised
\* ValueError, whose message names object_id.
random_triplet_blue_ignored(rgb_version, id_list, id_list_red, id_list_green, id_list_blue) ==
  LET ids == PROP_FEATURES[rgb_version].ids
      shared == IF Truthy(id_list) THEN Range(id_list.val) ELSE ids
      red == IF ~Truthy(id_list_red) THEN shared ELSE Range(id_list_red.val)
      green == IF ~Truthy(id_list_green) THEN shared ELSE Range(id_list_green.val)
  IN  {[kind |-> "ok", value |-> PropsSetType(rgb_version, <<r, g, b>>)] :
         r \in red, g \in green, b \in shared}
random_triplet_first_only(rgb_version, id_list, id_list_red, id_list_green, id_list_blue) ==
  LET ids == PROP_FEATURES[rgb_version].ids
      shared == IF Truthy(id_list) THEN Range(id_list.val) ELSE ids
      red == IF ~Truthy(id_list_red) THEN shared ELSE Range(id_list_red.val)
      green == IF ~Truthy(id_list_green) THEN shared ELSE Range(id_list_green.val)
      blue == IF ~Truthy(id_list_blue) THEN shared ELSE Range(id_list_blue.val)
  IN  IF Truthy(id_list) /\ id_list.val[1] \notin ids
        THEN {[kind |-> "ValueError", value |-> id_list.val[1]]}
        ELSE {[kind |-> "ok", value |-> PropsSetType(rgb_version, <<r, g, b>>)] :
                r \in red, g \in green, b \in blue}
random_triplet(rgb_version, id_list, id_list_red, id_list_green, id_list_blue) ==
  LET ids == PROP_FEATURES[rgb_version].ids
      \* positions of id_list whose object_id is not in ids
      bad == IF Truthy(id_list)
               THEN {i \in 1..Len(id_list.val) : id_list.val[i] \notin ids}
               ELSE {}
      first == CHOOSE i \in bad : \A j \in bad : i <= j
      shared == IF Truthy(id_list) THEN Range(id_list.val) ELSE ids
      red == IF ~Truthy(id_list_red) THEN shared ELSE Range(id_list_red.val)
      green == IF ~Truthy(id_list_green) THEN shared ELSE Range(id_list_green.val)
      blue == IF ~Truthy(id_list_blue) THEN shared ELSE Range(id_list_blue.val)
  IN  IF bad # {}
        THEN {[kind |-> "ValueError", value |-> id_list.val[first]]}
        ELSE {[kind |-> "ok", value |-> PropsSetType(rgb_version, <<r, g, b>>)] :
                r \in red, g \in green, b \in blue}

PROP_TRIPLETS_TEST_shifted ==
  [k \in {"rgb_test_triplet1", "rgb_test_triplet2", "rgb_test_triplet3",
          "rgb_test_triplet4", "rgb_test_triplet5"} |->
     CASE k = "rgb_test_triplet1" -> PropsSetType(V1, <<"r3", "s0", "b2">>)
       [] k = "rgb_test_triplet2" -> PropsSetType(V1, <<"r5", "g2", "b3">>)
       [] k = "rgb_test_triplet3" -> PropsSetType(V1, <<"r6", "g3", "b5">>)
       [] k = "rgb_test_triplet4" -> PropsSetType(V1, <<"s0", "g5", "b6">>)
       [] k = "rgb_test_triplet5" -> PropsSetType(V1, <<"r2", "g6", "b6">>)]
PROP_TRIPLETS_TEST ==
  [k \in {"rgb_test_triplet1", "rgb_test_triplet2", "rgb_test_triplet3",
          "rgb_test_triplet4", "rgb_test_triplet5"} |->
     CASE k = "rgb_test_triplet1" -> PropsSetType(V1, <<"r3", "s0", "b2">>)
       [] k = "rgb_test_triplet2" -> PropsSetType(V1, <<"r5", "g2", "b3">>)
       [] k = "rgb_test_triplet3" -> PropsSetType(V1, <<"r6", "g3", "b5">>)
       [] k = "rgb_test_triplet4" -> PropsSetType(V1, <<"s0", "g5", "b6">>)
       [] k = "rgb_test_triplet5" -> PropsSetType(V1, <<"r2", "g6", "s0">>)]

\* fixed_random_triplet: the outcomes the call can have.
fixed_random_triplet(rgb_version) ==
  IF rgb_version = V1
    THEN {[kind |-> "ok", value |-> PROP_TRIPLETS_TEST[obj_triplet]] :
            obj_triplet \in {s \in DOMAIN PROP_TRIPLETS_TEST :
                               startswith(s, "rgb_test_triplet")}}
    ELSE {[kind |-> "ValueError", value |-> rgb_version]}

\* functools.partial(func, **keywords)
partial(func, keywords) == [func |-> func, keywords |-> keywords]

\* _define_blue_prop_triplets(base_str, id_list, axes)
_define_blue_prop_triplets(base_str, id_list, axes) ==
  [k \in {base_str \o a : a \in Range(axes)} |->
     LET a == CHOOSE x \in Range(axes) : base_str \o x = k
     IN  partial("random_triplet",
                 [rgb_version |-> V1, id_list |-> id_list,
                  id_list_blue |-> Some(RGB_OBJECTS_DIM[a])])]

RANDOM_PROP_TRIPLETS_FUNCTIONS ==
  [k \in {"rgb_train_random", "rgb_heldout_random", "rgb_test_random"} |->
     CASE k = "rgb_train_random" ->
            partial("random_triplet",
                    [rgb_version |-> V1, id_list |-> Some(RGB_OBJECTS_TRAIN_SET)])
       [] k = "rgb_heldout_random" ->
            partial("random_triplet",
                    [rgb_version |-> V1, id_list |-> Some(RGB_OBJECTS_HELDOUT_SET)])
       [] k = "rgb_test_random" ->
            partial("fixed_random_triplet", [rgb_version |-> V1])]

\* {**PROP_TRIPLETS_TEST, **RANDOM_PROP_TRIPLETS_FUNCTIONS}
PROP_TRIPLETS ==
  [k \in DOMAIN PROP_TRIPLETS_TEST \cup DOMAIN RANDOM_PROP_TRIPLETS_FUNCTIONS |->
     IF k \in DOMAIN RANDOM_PROP_TRIPLETS_FUNCTIONS
       THEN RANDOM_PROP_TRIPLETS_FUNCTIONS[k]
       ELSE PROP_TRIPLETS_TEST[k]]

\* PROP_TRIPLETS[key]: the entry registered under key, or KeyError.
lookup(key) ==
  IF key \in DOMAIN PROP_TRIPLETS
    THEN [kind |-> "ok", value |-> PROP_TRIPLETS[key]]
    ELSE [kind |-> "KeyError", value |-> key]

(***************************************************************************)
(* Mesh path resolver.                                                     *)
(***************************************************************************)
\* The file system holds directories and files; a file is its directory and
\* its name. FilePool lists the files that may exist, in the order a walk
\* reports them (a directory before its subdirectories).
TrainDir == join(_RESOURCES_ROOT_DIR, "rgb_v1/meshes/train")
DirPool == Range(_RGB_OBJECTS_MESHES) \cup {join(TrainDir, "batch1")}
FilePool ==
  << [dir |-> join(_RESOURCES_ROOT_DIR, "rgb_v1/meshes/test_triplets"), name |-> "s0_c.stl"],
     [dir |-> TrainDir, name |-> "f23_b.stl"],
     [dir |-> join(TrainDir, "batch1"), name |-> "e23_a.stl"],
     [dir |-> join(_RESOURCES_ROOT_DIR, "rgb_v1/meshes/heldout"), name |-> "notes.txt"],
     [dir |-> join(TrainDir, "batch1"), name |-> "f23_b.stl"],
     [dir |-> TrainDir, name |-> "e23_a.obj"] >>
Files(n) ==
  SubSeq(FilePool, 1, IF n < Len(FilePool) THEN n ELSE Len(FilePool))

\* d is the directory top or lies below it.
under(d, top) == d = top \/ startswith(d, top \o "/")

FsStates ==
  {[dirs |-> D, files |-> F] : D \in SUBSET DirPool, F \in SUBSET Range(Files(NumFiles))}
WellFormedFs(f) ==
  /\ \A x \in f.files : x.dir \in f.dirs
  /\ \A d \in f.dirs : \A top \in DirPool : under(d, top) => top \in f.dirs

\* os.walk(path), flattened: the files of every directory at or below path,
\* in the order walked; nothing when path does not exist.
walk(path) ==
  LET visited(x) == path \in fs.dirs /\ x \in fs.files /\ under(x.dir, path)
  IN  SelectSeq(Files(NumFiles), visited)

\* The generator of lines 277-279 for one search directory.
meshes_of(path) ==
  LET is_stl(x) == endswith(x.name, ".stl")
      found == SelectSeq(walk(path), is_stl)
  IN  [i \in 1..Len(found) |-> join(path, found[i].name)]

\* meshes after the first n search directories.
RECURSIVE meshes_after(_, _)
meshes_after(mesh_paths, n) ==
  IF n = 0 THEN <<>>
  ELSE meshes_after(mesh_paths, n - 1) \o meshes_of(mesh_paths[n])

_get_all_meshes(rgb_version) ==
  LET mesh_paths == PROP_FEATURES[rgb_version].mesh_paths
  IN  meshes_after(mesh_paths, Len(mesh_paths))

(***************************************************************************)
(* Inputs of the calls.                                                    *)
(***************************************************************************)
IdListOptions ==
  {None, Some(<<>>), Some(<<"r2">>), Some(<<"t2", "r2">>),
   Some(<<"r2", "zz9">>), Some(<<"d2", "q1">>)}
ChannelOptions(own) ==
  {None, Some(<<>>), Some(<<own>>), Some(<<own, "zz9">>)}
LookupKeys ==
  DOMAIN PROP_TRIPLETS_TEST \cup DOMAIN RANDOM_PROP_TRIPLETS_FUNCTIONS
    \cup DOMAIN _define_blue_prop_triplets("rgb_blue_dim", None, <<"23", "5">>)
    \cup {"rgb_unknown"}

(***************************************************************************)
(* States and actions.                                                     *)
(***************************************************************************)
Idle == [op |-> "idle", kind |-> "idle"]

NoFiles == [dirs |-> {}, files |-> {}]

DatasetInit ==
  /\ fs = NoFiles
  /\ dataset_stl_paths = [v \in PropsVersion |-> None]
  /\ fresh = [v \in PropsVersion |-> TRUE]
  /\ returned = [v \in PropsVersion |-> None]

Init ==
  /\ params \in SUBSET Nicknames(NumNicknames)
  /\ result = Idle
  /\ DatasetInit

SamplerInit ==
  /\ params \in SUBSET Nicknames(NumSamplerNicknames)
  /\ result = Idle
  /\ DatasetInit

\* The caller takes the outcome of the last call.
Return ==
  /\ result.op # "idle"
  /\ result' = Idle
  /\ UNCHANGED <<params, fs, dataset_stl_paths, fresh, returned>>

RandomTriplet ==
  /\ result.op = "idle"
  /\ \E v \in PropsVersion, il \in IdListOptions, ilr \in ChannelOptions("r2"),
        ilg \in ChannelOptions("g2"), ilb \in ChannelOptions("b2") :
       \E out \in random_triplet(v, il, ilr, ilg, ilb) :
         result' = [op |-> "random_triplet",
                    args |-> [rgb_version |-> v, id_list |-> il, id_list_red |-> ilr,
                              id_list_green |-> ilg, id_list_blue |-> ilb],
                    kind |-> out.kind, value |-> out.value]
  /\ UNCHANGED <<params, fs, dataset_stl_paths, fresh, returned>>

FixedRandomTriplet ==
  /\ result.op = "idle"
  /\ \E v \in PropsVersion :
       \E out \in fixed_random_triplet(v) :
         result' = [op |-> "fixed_random_triplet", args |-> [rgb_version |-> v],
                    kind |-> out.kind, value |-> out.value]
  /\ UNCHANGED <<params, fs, dataset_stl_paths, fresh, returned>>

Lookup ==
  /\ result.op = "idle"
  /\ \E key \in LookupKeys :
       result' = [op |-> "lookup", args |-> [key |-> key],
                  kind |-> lookup(key).kind, value |-> lookup(key).value]
  /\ UNCHANGED <<params, fs, dataset_stl_paths, fresh, returned>>

\* RgbDataset.__call__(rgb_version)
Call ==
  /\ result.op = "idle"
  /\ \E rgb_version \in PropsVersion :
       LET scan == ~Truthy(dataset_stl_paths[rgb_version])
           paths == IF scan
                      THEN [dataset_stl_paths EXCEPT
                              ![rgb_version] = Some(_get_all_meshes(rgb_version))]
                      ELSE dataset_stl_paths
       IN  /\ dataset_stl_paths' = paths
           /\ result' = [op |-> "__call__", args |-> [rgb_version |-> rgb_version],
                         kind |-> "ok", value |-> paths[rgb_version].val,
                         scanned |-> scan, first |-> fresh[rgb_version],
                         previous |-> returned[rgb_version]]
           /\ fresh' = [fresh EXCEPT ![rgb_version] = FALSE]
           /\ returned' = [returned EXCEPT ![rgb_version] = Some(paths[rgb_version].val)]
  /\ UNCHANGED <<params, fs>>

\* RgbDataset.clear_cache()
ClearCache ==
  /\ result.op = "idle"
  /\ dataset_stl_paths' = [i \in PropsVersion |-> None]
  /\ result' = [op |-> "clear_cache", kind |-> "ok"]
  /\ fresh' = [i \in PropsVersion |-> TRUE]
  /\ returned' = [i \in PropsVersion |-> None]
  /\ UNCHANGED <<params, fs>>

\* A direct call of _get_all_meshes(rgb_version)
GetAllMeshes ==
  /\ result.op = "idle"
  /\ \E rgb_version \in PropsVersion :
       result' = [op |-> "_get_all_meshes", args |-> [rgb_version |-> rgb_version],
                  kind |-> "ok", value |-> _get_all_meshes(rgb_version)]
  /\ UNCHANGED <<params, fs, dataset_stl_paths, fresh, returned>>

\* The environment adds or removes mesh files and directories between calls.
FsChange ==
  /\ result.op = "idle"
  /\ fs' \in FsStates
  /\ fs' # fs
  /\ WellFormedFs(fs')
  /\ UNCHANGED <<params, result, dataset_stl_paths, fresh, returned>>

(***************************************************************************)
(* Properties.                                                             *)
(***************************************************************************)
Disjoint(A, B) == A \cap B = {}

\* C1 (as stated): no identifier belongs to more than one of the train,
\* heldout, test and excluded sets.
C1_PairwiseDisjoint ==
  /\ Disjoint(RGB_OBJECTS_TRAIN_SET, RGB_OBJECTS_HELDOUT_SET)
  /\ Disjoint(RGB_OBJECTS_TRAIN_SET, RGB_OBJECTS_TEST_SET)
  /\ Disjoint(RGB_OBJECTS_TRAIN_SET, _D_OBJECTS)
  /\ Disjoint(RGB_OBJECTS_HELDOUT_SET, RGB_OBJECTS_TEST_SET)
  /\ Disjoint(RGB_OBJECTS_HELDOUT_SET, _D_OBJECTS)
  /\ Disjoint(RGB_OBJECTS_TEST_SET, _D_OBJECTS)

\* C1 (amended): the train, heldout, test and excluded sets are pairwise
\* disjoint except for heldout and test: every test identifier is also a
\* heldout identifier.
C1_DisjointExceptTestInHeldout ==
  /\ Disjoint(RGB_OBJECTS_TRAIN_SET, RGB_OBJECTS_HELDOUT_SET)
  /\ Disjoint(RGB_OBJECTS_TRAIN_SET, RGB_OBJECTS_TEST_SET)
  /\ Disjoint(RGB_OBJECTS_TRAIN_SET, _D_OBJECTS)
  /\ Disjoint(RGB_OBJECTS_HELDOUT_SET, _D_OBJECTS)
  /\ Disjoint(RGB_OBJECTS_TEST_SET, _D_OBJECTS)
  /\ RGB_OBJECTS_TEST_SET \subseteq RGB_OBJECTS_HELDOUT_SET

\* A catalog with an excluded, a train and a heldout-only identifier.
C1_Witness ==
  /\ "d2" \in _D_OBJECTS
  /\ "f23" \in RGB_OBJECTS_TRAIN_SET
  /\ "t2" \in RGB_OBJECTS_HELDOUT_SET \ RGB_OBJECTS_TEST_SET
  /\ "r2" \in params

\* C2 (as stated): the union of the train, heldout, test and excluded sets
\* equals the full set.
C2_UnionEqualsFull ==
  (RGB_OBJECTS_TRAIN_SET \cup RGB_OBJECTS_HELDOUT_SET \cup RGB_OBJECTS_TEST_SET
     \cup _D_OBJECTS) = RGB_OBJECTS_FULL_SET

\* C2 (amended): the union of the train, heldout and test sets equals the
\* full set, and no excluded identifier is in the full set; so the union
\* with the excluded set contains the full set, and exceeds it exactly by
\* the excluded identifiers.
C2_UnionWithoutExcludedEqualsFull ==
  /\ (RGB_OBJECTS_TRAIN_SET \cup RGB_OBJECTS_HELDOUT_SET \cup RGB_OBJECTS_TEST_SET)
       = RGB_OBJECTS_FULL_SET
  /\ Disjoint(_D_OBJECTS, RGB_OBJECTS_FULL_SET)

\* A catalog with excluded identifiers of both lengths and a train identifier.
C2_Witness ==
  /\ {"d2", "d23"} \subseteq _D_OBJECTS
  /\ RGB_OBJECTS_TRAIN_SET # {}
  /\ "f5" \in RGB_OBJECTS_FULL_SET

\* The arguments of a random_triplet call contain an id_list with an
\* identifier outside the full set.
HasOffendingId(args) ==
  /\ args.id_list.given
  /\ \E i \in 1..Len(args.id_list.val) : args.id_list.val[i] \notin RGB_OBJECTS_FULL_SET

\* C4: random_triplet called with an id_list that contains an identifier not
\* in the full set raises ValueError naming an identifier of id_list that is
\* not in the full set, and returns no triplet, whatever the per-channel
\* lists are.
C4_OffendingIdRaises ==
  (result.op = "random_triplet" /\ HasOffendingId(result.args))
    => /\ result.kind = "ValueError"
       /\ result.value \in Range(result.args.id_list.val) \ RGB_OBJECTS_FULL_SET

\* A call whose id_list has a valid identifier before the offending one, and
\* whose red and blue lists are given, has raised.
C4_Witness ==
  /\ result.op = "random_triplet"
  /\ result.args.id_list = Some(<<"r2", "zz9">>)
  /\ result.args.id_list_red = Some(<<"r2">>)
  /\ result.args.id_list_blue = Some(<<"b2", "zz9">>)
  /\ result.kind = "ValueError"
  /\ result.value = "zz9"

\* The restriction list of a channel when "given" means "not None".
EffectiveIfGiven(own, id_list) ==
  IF own.given THEN Range(own.val)
  ELSE IF id_list.given THEN Range(id_list.val)
  ELSE RGB_OBJECTS_FULL_SET

\* The restriction list of a channel when "given" means "given and not empty".
EffectiveIfNonEmpty(own, id_list) ==
  IF own.given /\ own.val # <<>> THEN Range(own.val)
  ELSE IF id_list.given /\ id_list.val # <<>> THEN Range(id_list.val)
  ELSE RGB_OBJECTS_FULL_SET

\* C5 (as stated): every returned triplet has three identifiers, each a
\* member of its channel's effective list: the channel's own list when
\* given, otherwise id_list when given, otherwise the full set.
C5_ChannelInGivenList ==
  (result.op = "random_triplet" /\ result.kind = "ok")
    => LET ids == result.value.ids
           args == result.args
       IN  /\ Len(ids) = 3
           /\ ids[1] \in EffectiveIfGiven(args.id_list_red, args.id_list)
           /\ ids[2] \in EffectiveIfGiven(args.id_list_green, args.id_list)
           /\ ids[3] \in EffectiveIfGiven(args.id_list_blue, args.id_list)

\* C5 (amended): every returned triplet has three identifiers, each a member
\* of its channel's effective list: the channel's own list when given and
\* not empty, otherwise id_list when given and not empty, otherwise the full
\* set. With the lists ['r2'], ['g2'], ['b2'] the triplet is (r2, g2, b2).
C5_ChannelInNonEmptyList ==
  (result.op = "random_triplet" /\ result.kind = "ok")
    => LET ids == result.value.ids
           args == result.args
       IN  /\ Len(ids) = 3
           /\ result.value.version = args.rgb_version
           /\ ids[1] \in EffectiveIfNonEmpty(args.id_list_red, args.id_list)
           /\ ids[2] \in EffectiveIfNonEmpty(args.id_list_green, args.id_list)
           /\ ids[3] \in EffectiveIfNonEmpty(args.id_list_blue, args.id_list)
           /\ ( /\ args.id_list_red = Some(<<"r2">>)
                /\ args.id_list_green = Some(<<"g2">>)
                /\ args.id_list_blue = Some(<<"b2">>) )
                => ids = <<"r2", "g2", "b2">>

\* The call with the three singleton lists has returned (r2, g2, b2).
C5_Witness ==
  /\ result.op = "random_triplet"
  /\ result.kind = "ok"
  /\ result.args.id_list = Some(<<"t2", "r2">>)
  /\ result.args.id_list_red = Some(<<"r2">>)
  /\ result.args.id_list_green = Some(<<"g2">>)
  /\ result.args.id_list_blue = Some(<<"b2">>)
  /\ result.value.ids = <<"r2", "g2", "b2">>

\* C6: the three identifiers of every returned triplet are pairwise
\* different.
C6_TripletDistinct ==
  (result.op = "random_triplet" /\ result.kind = "ok")
    => LET ids == result.value.ids
       IN  ids[1] # ids[2] /\ ids[1] # ids[3] /\ ids[2] # ids[3]

\* The five predefined triplets, as the specification lists them.
PredefinedTriplets ==
  { PropsSetType(V1, <<"r3", "s0", "b2">>), PropsSetType(V1, <<"r5", "g2", "b3">>),
    PropsSetType(V1, <<"r6", "g3", "b5">>), PropsSetType(V1, <<"s0", "g5", "b6">>),
    PropsSetType(V1, <<"r2", "g6", "s0">>) }

\* C7: fixed_random_triplet returns one of the five predefined triplets,
\* each of the five is a possible result of a call, and every identifier of
\* the five is in the full set.
C7_FixedTripletPredefined ==
  /\ result.op = "fixed_random_triplet"
       => result.kind = "ok" /\ result.value \in PredefinedTriplets
  /\ result.op = "idle"
       => \A t \in PredefinedTriplets :
            ENABLED (FixedRandomTriplet /\ result'.value = t)
  /\ \A t \in PredefinedTriplets : Range(t.ids) \subseteq RGB_OBJECTS_FULL_SET

\* fixed_random_triplet has returned the fifth triplet, for a catalog that
\* holds none of its identifiers.
C7_Witness ==
  /\ result.op = "fixed_random_triplet"
  /\ result.value = PropsSetType(V1, <<"r2", "g6", "s0">>)
  /\ params = {"d2"}

\* The keys the registry is said to hold.
LiteralKeys ==
  {"rgb_test_triplet1", "rgb_test_triplet2", "rgb_test_triplet3",
   "rgb_test_triplet4", "rgb_test_triplet5"}
RandomKeys == {"rgb_train_random", "rgb_heldout_random", "rgb_test_random"}
AxisKeys == {"rgb_blue_dim" \o a : a \in Range(DEFORMATION_AXES)}

\* C8: PROP_TRIPLETS holds the five literal keys, the three random sampler
\* keys and one axis-conditioned key per deformation axis, and looking up
\* any of them succeeds.
C8_RegistryKeys ==
  /\ (LiteralKeys \cup RandomKeys \cup AxisKeys) \subseteq DOMAIN PROP_TRIPLETS
  /\ (result.op = "lookup"
        /\ result.args.key \in LiteralKeys \cup RandomKeys \cup AxisKeys)
       => result.kind = "ok"

\* The position of a deformation letter in _DEFORMATION_VALUES.
ValueIndex(c) == CHOOSE k \in 1..Len(_DEFORMATION_VALUES) : _DEFORMATION_VALUES[k] = c

\* C9: for every deformation axis, RGB_OBJECTS_DIM maps the axis to a list
\* that holds exactly the identifiers <letter><axis> of the full set, in the
\* order of _DEFORMATION_VALUES and without duplicates (the empty list when
\* there is none).
C9_AxisLists ==
  \A a \in Range(DEFORMATION_AXES) :
    /\ a \in DOMAIN RGB_OBJECTS_DIM
    /\ LET l == RGB_OBJECTS_DIM[a]
       IN  /\ Range(l) = {v \o a : v \in Range(_DEFORMATION_VALUES)}
                           \cap RGB_OBJECTS_FULL_SET
           /\ \A i, j \in 1..Len(l) :
                i < j => ValueIndex(SubSeq(l[i], 1, 1)) < ValueIndex(SubSeq(l[j], 1, 1))
           /\ \A i \in 1..Len(l) : l[i] = SubSeq(l[i], 1, 1) \o a

\* An axis with two identifiers (in the order f, e), one with a test
\* identifier only, and one with none.
C9_Witness ==
  /\ RGB_OBJECTS_DIM["23"] = <<"f23", "e23">>
  /\ RGB_OBJECTS_DIM["5"] = <<"f5", "r5">>
  /\ RGB_OBJECTS_DIM["2"] = <<"r2">>
  /\ RGB_OBJECTS_DIM["67"] = <<>>
  /\ "d23" \in params

\* C3: a __call__ for a version scans the directories exactly when it is the
\* first call for the version since the start or since the last
\* clear_cache(); every other call returns what the previous call returned.
C3_ScanOnlyOnFirstCall ==
  result.op = "__call__"
    => /\ result.scanned <=> result.first
       /\ ~result.first => result.previous = Some(result.value)

\* The paths of the mesh files that exist at or below a search directory.
MeshFilePaths ==
  {join(x.dir, x.name) :
     x \in {y \in fs.files :
              /\ endswith(y.name, ".stl")
              /\ \E top \in Range(_RGB_OBJECTS_MESHES) :
                   top \in fs.dirs /\ under(y.dir, top)}}

\* C10: _get_all_meshes returns exactly the paths of the .stl files at or
\* below the search directories, nested ones included; a missing directory
\* contributes nothing.
C10_MeshPathsExact ==
  result.op = "_get_all_meshes" => Range(result.value) = MeshFilePaths

Next == FixedRandomTriplet \/ Lookup \/ Return

Spec == Init /\ [][Next]_vars

SamplerNext == RandomTriplet \/ Return

SamplerSpec == SamplerInit /\ [][SamplerNext]_vars

DatasetSpecInit ==
  /\ params = {}
  /\ result = Idle
  /\ fs \in FsStates
  /\ WellFormedFs(fs)
  /\ dataset_stl_paths = [i \in PropsVersion |-> None]
  /\ fresh = [i \in PropsVersion |-> TRUE]
  /\ returned = [i \in PropsVersion |-> None]

DatasetNext == Call \/ ClearCache \/ GetAllMeshes \/ FsChange \/ Return

DatasetSpec == DatasetSpecInit /\ [][DatasetNext]_vars
====
